---- MODULE Spec2Model ----
(***************************************************************************)
(* Cyclic scheduler of TempCycleDMA (flag/timer variant).                  *)
(*                                                                         *)
(* The main loop calls control_states() for ever; five repeating timers    *)
(* run their callbacks in interrupt context and may preempt the main loop  *)
(* between any two memory accesses.  The main-loop thread is modelled one  *)
(* memory access (or one handler body) per step, with `pc` as its          *)
(* position; a timer callback is a single step enabled at every position.  *)
(* A handler body touches no flag, so a callback that fires inside a body  *)
(* is indistinguishable from one firing just before or after it.           *)
(***************************************************************************)
EXTENDS Integers, Sequences, FiniteSets

VARIABLES
    flag,         \* the five bool globals can_read_temp .. can_update_neopixel_matrix
    media,        \* latest temperature average, in tenths of a degree
    t,            \* latest trend classification
    ini_tarefa,   \* ini_tarefa1 .. ini_tarefa4
    fim_tarefa,   \* fim_tarefa1 .. fim_tarefa4
    leds,         \* what the NeoPixel matrix shows after the last npWrite
    now,          \* the clock read by get_absolute_time
    alarms,       \* the repeating timers still registered
    pc,           \* position of the main-loop thread
    this_state,   \* update_states: pointer parameter
    next_state,   \* update_states: pointer parameter
    val,          \* update_states: the value loaded from *this_state
    obs,          \* which observer records history in this behaviour
    called,       \* observer "call": control_states has been entered at least once
    entry,        \* observer "call": flags set when control_states was entered
    ran,          \* observer "call": handlers executed by the current invocation
    irq,          \* observer "call": a callback fired since that invocation began
    reports,      \* observer "call": Reporter lines emitted by the invocation
    pending,      \* observer "wake": stages whose timer fired and whose task has not started since
    race,         \* observer "race": timer write and hand-off write meeting on can_thermal_trend
    solo,         \* observer "solo": what followed one lone firing of the first timer
    pass,         \* observer "pass": stages executed since the last Reporter line
    last,        \* observer "clock": when the latest execution of each stage began and ended
    steps,       \* observer "steps": main-thread steps since control_states was called
    fresh,       \* observer "fresh": t was classified after the latest write of media
    quiet,       \* observer "quiet": calls and executions since the latest timer firing
    credit        \* observer "arm": arming events less executions of one stage

prog == <<flag, media, t, ini_tarefa, fim_tarefa, leds, now, alarms,
          pc, this_state, next_state, val>>
hist == <<obs, called, entry, ran, irq, reports, pending, race, solo, pass,
          last, steps, fresh, quiet, credit>>
vars == <<prog, hist>>

----------------------------------------------------------------------------
(* Addresses of the flags, in the order control_states tests them.         *)
can_read_temp == "can_read_temp"
can_alert_neopixel == "can_alert_neopixel"
can_thermal_trend == "can_thermal_trend"
can_show_oled == "can_show_oled"
can_update_neopixel_matrix == "can_update_neopixel_matrix"

Order == <<can_read_temp, can_alert_neopixel, can_thermal_trend,
           can_show_oled, can_update_neopixel_matrix>>

Stages == {Order[i] : i \in DOMAIN Order}

NULL == "NULL"

(* Mutant: the display flag starts true instead of the sampling flag.      *)
FlagInitDisplayFirst == [s \in Stages |-> s = can_show_oled]

(* Initial values of the flags.                                            *)
FlagInit == [s \in Stages |-> s = can_read_temp]

(* The five registrations of main(): period and flag set by the callback.  *)
Timers ==
    { [delay_ms |-> 1000, callback |-> "repeating_timer_callback"],
      [delay_ms |-> 1200, callback |-> "task5_callback"],
      [delay_ms |-> 1250, callback |-> "task3_callback"],
      [delay_ms |-> 1300, callback |-> "task2_callback"],
      [delay_ms |-> 1350, callback |-> "task4_callback"] }

(* Values the sampling collaborator returns, in tenths of a degree.        *)
MediaValues == {8, 10}

(* `media < 1` in tenths of a degree.                                      *)
AlertThreshold == 10

(* tendencia_t, as the trend collaborator's categories.                    *)
Trends == {"stable", "rising", "falling"}

Tarefas == 1 .. 4

(* Observers: each behaviour records the history one group of properties   *)
(* needs; the program's steps do not depend on the observer.               *)
Observers == {"call", "wake", "race", "solo", "pass", "fresh", "quiet", "arm"}

----------------------------------------------------------------------------
(* History recording.  An event is what the step just did:                 *)
(*   <<"call">>         control_states entered                             *)
(*   <<"run", s>>       the handler of stage s started                     *)
(*   <<"end", s>>       the handler of stage s stamped its end             *)
(*   <<"store", s, v>>  update_states stored v into the flag of stage s    *)
(*   <<"report">>       show_duration_tasks_execution executed             *)
(*   <<"irq", s>>       the timer callback of stage s executed             *)
(*   <<"cleared", s>>   update_states finished for this_state = s          *)
(*   <<"step">>         anything else                                      *)
FlagsSet(f) == {s \in Stages : f[s]}

InCall == pc \notin {"setup", "while"}

ObserveCall(ev) ==
    IF obs # "call" THEN UNCHANGED <<called, entry, ran, irq, reports>>
    ELSE CASE ev[1] = "call" ->
                /\ called' = TRUE
                /\ entry' = FlagsSet(flag)
                /\ ran' = <<>>
                /\ irq' = FALSE
                /\ reports' = 0
           [] ev[1] = "run" ->
                /\ ran' = Append(ran, ev[2])
                /\ UNCHANGED <<called, entry, irq, reports>>
           [] ev[1] = "report" ->
                /\ reports' = reports + 1
                /\ UNCHANGED <<called, entry, ran, irq>>
           [] ev[1] = "irq" ->
                /\ irq' = called
                /\ UNCHANGED <<called, entry, ran, reports>>
           [] OTHER -> UNCHANGED <<called, entry, ran, irq, reports>>

ObserveWake(ev) ==
    IF obs # "wake" THEN UNCHANGED pending
    ELSE CASE ev[1] = "irq" -> pending' = pending \cup {ev[2]}
           [] ev[1] = "run" -> pending' = pending \ {ev[2]}
           [] OTHER -> UNCHANGED pending

RaceIdle == [fired |-> FALSE, phase |-> "idle", runs |-> 0]

ObserveRace(ev) ==
    IF obs # "race" THEN UNCHANGED race
    ELSE IF race.phase = "open" /\ flag[can_thermal_trend] /\ ~flag'[can_thermal_trend]
    THEN race' = [race EXCEPT !.phase = "closed"]
    ELSE CASE ev[1] = "call" -> race' = [race EXCEPT !.fired = FALSE]
           [] ev[1] = "irq" /\ ev[2] = can_thermal_trend /\ InCall ->
                race' = [race EXCEPT !.fired = TRUE]
           [] ev[1] = "cleared" /\ ev[2] = can_alert_neopixel /\ race.fired ->
                race' = [fired |-> FALSE, phase |-> "open", runs |-> 0]
           [] ev[1] = "run" /\ ev[2] = can_thermal_trend /\ race.phase = "open" ->
                race' = [race EXCEPT !.runs = @ + 1]
           [] OTHER -> UNCHANGED race

SoloOff == [on |-> FALSE, calls |-> 0, seq |-> <<>>, reps |-> 0]

ObserveSolo(ev) ==
    IF obs # "solo" THEN UNCHANGED solo
    ELSE CASE ev[1] = "irq" ->
                solo' = IF /\ ev[2] = can_read_temp
                           /\ pc = "while"
                           /\ FlagsSet(flag) = {}
                           /\ ~solo.on
                        THEN [SoloOff EXCEPT !.on = TRUE]
                        ELSE SoloOff
           [] ev[1] = "call" /\ solo.on ->
                solo' = IF solo.calls < Len(Order)
                        THEN [solo EXCEPT !.calls = @ + 1]
                        ELSE SoloOff
           [] ev[1] = "run" /\ solo.on -> solo' = [solo EXCEPT !.seq = Append(@, ev[2])]
           [] ev[1] = "report" /\ solo.on -> solo' = [solo EXCEPT !.reps = @ + 1]
           [] OTHER -> UNCHANGED solo

ObservePass(ev) ==
    IF obs # "pass" THEN UNCHANGED pass
    ELSE CASE ev[1] = "run" -> pass' = pass \cup {ev[2]}
           [] ev[1] = "report" -> pass' = {}
           [] OTHER -> UNCHANGED pass

(* The clock observer: the clock at the first and at the last step of the  *)
(* latest execution of each stage whose handler has both steps.            *)
Bracketed == Stages \ {can_alert_neopixel}

ObserveClock(ev) ==
    IF obs # "clock" THEN UNCHANGED last
    ELSE CASE ev[1] = "run" /\ ev[2] \in Bracketed ->
                last' = [last EXCEPT ![ev[2]].start = now]
           [] ev[1] = "end" ->
                last' = [last EXCEPT ![ev[2]].end = now]
           [] OTHER -> UNCHANGED last


(* The steps observer: how many steps the main thread has taken since the  *)
(* latest call of control_states; interrupt handlers are not counted.      *)
StepLimit == 10

ObserveSteps(ev) ==
    IF obs # "steps" THEN UNCHANGED steps
    ELSE CASE ev[1] = "call" -> steps' = 0
           [] ev[1] = "irq" -> UNCHANGED steps
           [] OTHER -> steps' = IF steps < StepLimit THEN steps + 1 ELSE steps


(* The fresh observer: whether t has been computed by AnalyzeTrend since   *)
(* media was last written by ReadTemperature.                              *)
ObserveFresh(ev) ==
    IF obs # "fresh" THEN UNCHANGED fresh
    ELSE CASE ev = <<"end", can_read_temp>> -> fresh' = FALSE
           [] ev = <<"end", can_thermal_trend>> -> fresh' = TRUE
           [] OTHER -> UNCHANGED fresh


(* The quiet observer: how many calls of control_states have been entered  *)
(* and how many handlers have started since the latest timer firing; the   *)
(* count of calls stops at one more than the number of stages.             *)
ObserveQuiet(ev) ==
    IF obs # "quiet" THEN UNCHANGED quiet
    ELSE CASE ev[1] = "irq" -> quiet' = [calls |-> 0, runs |-> 0]
           [] ev[1] = "call" ->
                quiet' = [quiet EXCEPT !.calls =
                             IF @ <= Cardinality(Stages) THEN @ + 1 ELSE @]
           [] ev[1] = "run" /\ quiet.calls <= Cardinality(Stages) ->
                quiet' = [quiet EXCEPT !.runs = @ + 1]
           [] OTHER -> UNCHANGED quiet


(* The arm observer watches one stage: n is the number of its arming       *)
(* events (its timer firing, a hand-off that stored true into its flag,    *)
(* the initial true of can_read_temp) less the number of its executions.   *)
(* From MaxArm on the count is no longer followed; -1 is an execution that *)
(* no arming event paid for.                                               *)
MaxArm == 2

CreditInit ==
    IF obs = "arm"
      THEN {[stage |-> s, n |-> IF FlagInit[s] THEN 1 ELSE 0] : s \in Stages}
      ELSE {[stage |-> NULL, n |-> 0]}

Armed(c) == [c EXCEPT !.n = IF @ \in 0..(MaxArm - 1) THEN @ + 1 ELSE @]

Executed(c) == [c EXCEPT !.n = IF @ \in 0..(MaxArm - 1) THEN @ - 1 ELSE @]

ObserveArm(ev) ==
    IF obs # "arm" THEN UNCHANGED credit
    ELSE CASE ev[1] = "irq" /\ ev[2] = credit.stage -> credit' = Armed(credit)
           [] ev[1] = "store" /\ ev[2] = credit.stage /\ ev[3] ->
                credit' = Armed(credit)
           [] ev[1] = "run" /\ ev[2] = credit.stage -> credit' = Executed(credit)
           [] OTHER -> UNCHANGED credit

Observe(ev) ==
    /\ obs' = obs
    /\ ObserveClock(ev)
    /\ ObserveCall(ev)
    /\ ObserveWake(ev)
    /\ ObserveRace(ev)
    /\ ObserveSolo(ev)
    /\ ObservePass(ev)
    /\ ObserveSteps(ev)
    /\ ObserveFresh(ev)
    /\ ObserveQuiet(ev)
    /\ ObserveArm(ev)

----------------------------------------------------------------------------
Init ==
    /\ flag = FlagInit
    /\ media = 0
    /\ t \in Trends
    /\ ini_tarefa = [i \in Tarefas |-> 0]
    /\ fim_tarefa = [i \in Tarefas |-> 0]
    /\ leds = "dark"
    /\ now = 0
    /\ alarms = Timers
    /\ pc = "setup"
    /\ this_state = NULL
    /\ next_state = NULL
    /\ val = FALSE
    /\ obs \in Observers
    /\ called = FALSE
    /\ entry = {}
    /\ ran = <<>>
    /\ irq = FALSE
    /\ reports = 0
    /\ pending = {}
    /\ race = RaceIdle
    /\ solo = SoloOff
    /\ pass = {}
    /\ last = [s \in Bracketed |-> [start |-> 0, end |-> 0]]
    /\ steps = 0
    /\ fresh = FALSE
    /\ quiet = [calls |-> 0, runs |-> 0]
    /\ credit \in CreditInit

----------------------------------------------------------------------------
(* Timer callbacks.  Each returns the pair (flags after, return value).    *)
(* Mutant: the callback of the first timer returns false, which cancels    *)
(* the repeating timer after its first firing.                             *)
repeating_timer_callback_one_shot(f) ==
    [flags |-> [f EXCEPT ![can_read_temp] = TRUE], ret |-> FALSE]

repeating_timer_callback(f) ==
    [flags |-> [f EXCEPT ![can_read_temp] = TRUE], ret |-> TRUE]

task5_callback(f) ==
    [flags |-> [f EXCEPT ![can_alert_neopixel] = TRUE], ret |-> TRUE]

task3_callback(f) ==
    [flags |-> [f EXCEPT ![can_thermal_trend] = TRUE], ret |-> TRUE]

(* Mutant: the callback of the display timer writes the wrong flag.        *)
task2_callback_wrong_flag(f) ==
    [flags |-> [f EXCEPT ![can_update_neopixel_matrix] = TRUE], ret |-> TRUE]

task2_callback(f) ==
    [flags |-> [f EXCEPT ![can_show_oled] = TRUE], ret |-> TRUE]

task4_callback(f) ==
    [flags |-> [f EXCEPT ![can_update_neopixel_matrix] = TRUE], ret |-> TRUE]

Callback(name, f) ==
    CASE name = "repeating_timer_callback" -> repeating_timer_callback(f)
      [] name = "task5_callback" -> task5_callback(f)
      [] name = "task3_callback" -> task3_callback(f)
      [] name = "task2_callback" -> task2_callback(f)
      [] name = "task4_callback" -> task4_callback(f)

(* The stage whose flag a callback writes (for the observers only).        *)
StageOf(name) ==
    CASE name = "repeating_timer_callback" -> can_read_temp
      [] name = "task5_callback" -> can_alert_neopixel
      [] name = "task3_callback" -> can_thermal_trend
      [] name = "task2_callback" -> can_show_oled
      [] name = "task4_callback" -> can_update_neopixel_matrix

(* A registered repeating timer elapses: its callback runs in interrupt    *)
(* context; the timer stays registered iff the callback returns true.      *)
Fire(name) ==
    /\ \E tm \in alarms :
         /\ tm.callback = name
         /\ LET r == Callback(name, flag) IN
              /\ flag' = r.flags
              /\ alarms' = IF r.ret THEN alarms ELSE alarms \ {tm}
    /\ UNCHANGED <<media, t, ini_tarefa, fim_tarefa, leds, now,
                   pc, this_state, next_state, val>>
    /\ Observe(<<"irq", StageOf(name)>>)

Timer1 == Fire("repeating_timer_callback")
Timer5 == Fire("task5_callback")
Timer3 == Fire("task3_callback")
Timer2 == Fire("task2_callback")
Timer4 == Fire("task4_callback")

----------------------------------------------------------------------------
(* main(): setup() returns and the loop begins.                            *)
setup ==
    /\ pc = "setup"
    /\ pc' = "while"
    /\ UNCHANGED <<flag, media, t, ini_tarefa, fim_tarefa, leds, now, alarms,
                   this_state, next_state, val>>
    /\ Observe(<<"step">>)

(* while (true) control_states();                                          *)
control_states ==
    /\ pc = "while"
    /\ pc' = "if_read_temp"
    /\ UNCHANGED <<flag, media, t, ini_tarefa, fim_tarefa, leds, now, alarms,
                   this_state, next_state, val>>
    /\ Observe(<<"call">>)

(* if (can_x) ... : one load of the flag and a branch.                     *)
Test(here, s, taken, fallthrough) ==
    /\ pc = here
    /\ pc' = IF flag[s] THEN taken ELSE fallthrough
    /\ UNCHANGED <<flag, media, t, ini_tarefa, fim_tarefa, leds, now, alarms,
                   this_state, next_state, val>>
    /\ Observe(<<"step">>)

if_read_temp == Test("if_read_temp", can_read_temp, "task_1", "if_alert_neopixel")
if_alert_neopixel == Test("if_alert_neopixel", can_alert_neopixel, "task_5", "if_thermal_trend")
if_thermal_trend == Test("if_thermal_trend", can_thermal_trend, "task_3", "if_show_oled")
if_show_oled == Test("if_show_oled", can_show_oled, "task_2", "if_update_neopixel_matrix")
(* Mutant: the terminal branch is entered without testing its flag.        *)
if_update_neopixel_matrix_untested ==
    Test("if_update_neopixel_matrix", can_update_neopixel_matrix, "reset_4", "reset_4")

if_update_neopixel_matrix ==
    Test("if_update_neopixel_matrix", can_update_neopixel_matrix, "reset_4", "while")

get_absolute_time == now

(* update_states(&a, &b) is entered.                                       *)
CallUpdateStates(a, b) ==
    /\ pc' = "us_load"
    /\ this_state' = a
    /\ next_state' = b
    /\ val' = FALSE

(* A handler stamps its start, calls its collaborator, stamps its end:     *)
(* the start stamp is one step, the collaborator call with the end stamp   *)
(* another, so that time can pass in between.                              *)
Begin(here, i, s, there) ==
    /\ pc = here
    /\ ini_tarefa' = [ini_tarefa EXCEPT ![i] = get_absolute_time]
    /\ pc' = there
    /\ UNCHANGED <<flag, media, t, fim_tarefa, leds, now, alarms,
                   this_state, next_state, val>>
    /\ Observe(<<"run", s>>)

(* task_1_read_temperature(): ini_tarefa1 = get_absolute_time();           *)
task_1_begin == Begin("task_1", 1, can_read_temp, "task_1_sample")

(* media = tarefa1_obter_media_temp(...); fim_tarefa1 = ...;               *)
task_1_read_temperature ==
    /\ pc = "task_1_sample"
    /\ \E m \in MediaValues : media' = m
    /\ fim_tarefa' = [fim_tarefa EXCEPT ![1] = get_absolute_time]
    /\ pc' = "task_1_reset"
    /\ UNCHANGED <<flag, t, ini_tarefa, leds, now, alarms,
                   this_state, next_state, val>>
    /\ Observe(<<"end", can_read_temp>>)

(* can_read_temp = false; then update_states(&can_read_temp, ...).         *)
task_1_reset ==
    /\ pc = "task_1_reset"
    /\ flag' = [flag EXCEPT ![can_read_temp] = FALSE]
    /\ CallUpdateStates(can_read_temp, can_alert_neopixel)
    /\ UNCHANGED <<media, t, ini_tarefa, fim_tarefa, leds, now, alarms>>
    /\ Observe(<<"step">>)

(* The NeoPixel driver: npSetAll(COR_BRANCA) and npClear write the pixel   *)
(* buffer, npWrite sends the buffer to the matrix.  Drive gives what the   *)
(* matrix shows after a sequence of driver calls.                          *)
RECURSIVE Drive(_, _, _)
Drive(calls, buf, shown) ==
    IF calls = <<>> THEN shown
    ELSE LET c == Head(calls) IN
         Drive(Tail(calls),
               CASE c = "npSetAll" -> "white" [] c = "npClear" -> "clear" [] OTHER -> buf,
               IF c = "npWrite" THEN buf ELSE shown)

(* Mutant: the comparison of the alert is <= instead of <.                 *)
AlertCallsInclusive(m) ==
    IF m <= AlertThreshold THEN <<"npSetAll", "npWrite">> ELSE <<"npClear", "npWrite">>

(* The driver calls of task_5_alert_neopixel for media = m.                *)
AlertCalls(m) ==
    IF m < AlertThreshold THEN <<"npSetAll", "npWrite">> ELSE <<"npClear", "npWrite">>

(* Mutant: the alert blinks for as long as media is below the threshold.   *)
task_5_alert_neopixel_blinks ==
    /\ pc = "task_5"
    /\ IF media < AlertThreshold
          THEN /\ leds' = IF leds = "white" THEN "clear" ELSE "white"
               /\ UNCHANGED <<pc, this_state, next_state, val>>
          ELSE /\ leds' = Drive(AlertCalls(media), leds, leds)
               /\ CallUpdateStates(can_alert_neopixel, can_thermal_trend)
    /\ UNCHANGED <<flag, media, t, ini_tarefa, fim_tarefa, now, alarms>>
    /\ Observe(<<"run", can_alert_neopixel>>)

(* task_5_alert_neopixel(), then update_states is entered.                 *)
task_5_alert_neopixel ==
    /\ pc = "task_5"
    /\ leds' = Drive(AlertCalls(media), leds, leds)
    /\ CallUpdateStates(can_alert_neopixel, can_thermal_trend)
    /\ UNCHANGED <<flag, media, t, ini_tarefa, fim_tarefa, now, alarms>>
    /\ Observe(<<"run", can_alert_neopixel>>)

(* task_3_thermal_trend(): ini_tarefa3 = get_absolute_time();              *)
task_3_begin == Begin("task_3", 3, can_thermal_trend, "task_3_classify")

(* t = tarefa3_analisa_tendencia(media); fim_tarefa3 = ...; then           *)
(* update_states is entered.                                               *)
task_3_thermal_trend ==
    /\ pc = "task_3_classify"
    /\ \E c \in Trends : t' = c
    /\ fim_tarefa' = [fim_tarefa EXCEPT ![3] = get_absolute_time]
    /\ CallUpdateStates(can_thermal_trend, can_show_oled)
    /\ UNCHANGED <<flag, media, ini_tarefa, leds, now, alarms>>
    /\ Observe(<<"end", can_thermal_trend>>)

(* Mutant: the display handler stamps its start in the pair of tarefa 3.   *)
task_2_begin_pair_3 == Begin("task_2", 3, can_show_oled, "task_2_render")

(* task_2_show_oled(): ini_tarefa2 = get_absolute_time();                  *)
task_2_begin == Begin("task_2", 2, can_show_oled, "task_2_render")

(* Mutant: the display handler classifies the trend again.                 *)
task_2_show_oled_reclassifies ==
    /\ pc = "task_2_render"
    /\ \E c \in Trends : t' = c
    /\ fim_tarefa' = [fim_tarefa EXCEPT ![2] = get_absolute_time]
    /\ CallUpdateStates(can_show_oled, can_update_neopixel_matrix)
    /\ UNCHANGED <<flag, media, ini_tarefa, leds, now, alarms>>
    /\ Observe(<<"end", can_show_oled>>)

(* tarefa2_exibir_oled(media, t); fim_tarefa2 = ...; then update_states    *)
(* is entered.                                                             *)
task_2_show_oled ==
    /\ pc = "task_2_render"
    /\ fim_tarefa' = [fim_tarefa EXCEPT ![2] = get_absolute_time]
    /\ CallUpdateStates(can_show_oled, can_update_neopixel_matrix)
    /\ UNCHANGED <<flag, media, t, ini_tarefa, leds, now, alarms>>
    /\ Observe(<<"end", can_show_oled>>)

(* Mutant: the terminal branch leaves its flag set.                        *)
reset_4_keeps_flag ==
    /\ pc = "reset_4"
    /\ flag' = flag
    /\ pc' = "task_4"
    /\ UNCHANGED <<media, t, ini_tarefa, fim_tarefa, leds, now, alarms,
                   this_state, next_state, val>>
    /\ Observe(<<"step">>)

(* Mutant: the terminal stage arms the alert stage as it clears itself, so *)
(* the cascade cycles.                                                     *)
reset_4_cycles ==
    /\ pc = "reset_4"
    /\ flag' = [flag EXCEPT ![can_update_neopixel_matrix] = FALSE,
                            ![can_alert_neopixel] = TRUE]
    /\ pc' = "task_4"
    /\ UNCHANGED <<media, t, ini_tarefa, fim_tarefa, leds, now, alarms,
                   this_state, next_state, val>>
    /\ Observe(<<"step">>)

(* Mutant: the terminal stage re-arms the first stage as it clears itself. *)
reset_4_rearm ==
    /\ pc = "reset_4"
    /\ flag' = [flag EXCEPT ![can_update_neopixel_matrix] = FALSE,
                            ![can_read_temp] = TRUE]
    /\ pc' = "task_4"
    /\ UNCHANGED <<media, t, ini_tarefa, fim_tarefa, leds, now, alarms,
                   this_state, next_state, val>>
    /\ Observe(<<"step">>)

(* can_update_neopixel_matrix = false; in the terminal branch.             *)
reset_4 ==
    /\ pc = "reset_4"
    /\ flag' = [flag EXCEPT ![can_update_neopixel_matrix] = FALSE]
    /\ pc' = "task_4"
    /\ UNCHANGED <<media, t, ini_tarefa, fim_tarefa, leds, now, alarms,
                   this_state, next_state, val>>
    /\ Observe(<<"step">>)

(* task_4_update_neopixel_matrix(): ini_tarefa4 = get_absolute_time();     *)
task_4_begin == Begin("task_4", 4, can_update_neopixel_matrix, "task_4_palette")

(* tarefa4_matriz_cor_por_tendencia(t); fim_tarefa4 = ...;                 *)
task_4_update_neopixel_matrix ==
    /\ pc = "task_4_palette"
    /\ fim_tarefa' = [fim_tarefa EXCEPT ![4] = get_absolute_time]
    /\ leds' = t
    /\ pc' = "show_durations"
    /\ UNCHANGED <<flag, media, t, ini_tarefa, now, alarms,
                   this_state, next_state, val>>
    /\ Observe(<<"end", can_update_neopixel_matrix>>)

(* Mutant: the durations of tarefa 2 and tarefa 3 printed in each other's  *)
(* place.                                                                  *)
ReportLineSwapped ==
    <<media,
      fim_tarefa[1] - ini_tarefa[1],
      fim_tarefa[3] - ini_tarefa[3],
      fim_tarefa[2] - ini_tarefa[2],
      fim_tarefa[4] - ini_tarefa[4],
      t>>

(* The arguments of the Reporter's printf, in order: media, tempo1_us ..   *)
(* tempo4_us (absolute_time_diff_us(ini, fim) = fim - ini) and t.          *)
ReportLine ==
    <<media,
      fim_tarefa[1] - ini_tarefa[1],
      fim_tarefa[2] - ini_tarefa[2],
      fim_tarefa[3] - ini_tarefa[3],
      fim_tarefa[4] - ini_tarefa[4],
      t>>

(* show_duration_tasks_execution(), then control_states returns.           *)
show_duration_tasks_execution ==
    /\ pc = "show_durations"
    /\ pc' = "while"
    /\ UNCHANGED <<flag, media, t, ini_tarefa, fim_tarefa, leds, now, alarms,
                   this_state, next_state, val>>
    /\ Observe(<<"report">>)

(* The flags are plain (non-volatile) bools shared with interrupt context. *)
(* A load through p that directly follows the main loop's own store to p, with *)
(* no call in between, may be served from that store instead of memory:    *)
(* this is the case for can_read_temp after task_1_read_temperature.       *)
Forwarded(p) == IF p = can_read_temp THEN {FALSE} ELSE {}

(* Mutant: update_states loads through the wrong pointer.                  *)
us_load_wrong_pointer ==
    /\ pc = "us_load"
    /\ val' = flag[next_state]
    /\ pc' = "us_store"
    /\ UNCHANGED <<flag, media, t, ini_tarefa, fim_tarefa, leds, now, alarms,
                   this_state, next_state>>
    /\ Observe(<<"step">>)

(* update_states: the load of the assignment next_state <- this_state.    *)
us_load ==
    /\ pc = "us_load"
    /\ \E v \in {flag[this_state]} \cup Forwarded(this_state) : val' = v
    /\ pc' = "us_store"
    /\ UNCHANGED <<flag, media, t, ini_tarefa, fim_tarefa, leds, now, alarms,
                   this_state, next_state>>
    /\ Observe(<<"step">>)

(* Mutant: the two assignments of update_states in the wrong order, so     *)
(* that the value copied is the one already reset.                         *)
us_store_after_reset ==
    /\ pc = "us_store"
    /\ flag' = [flag EXCEPT ![next_state] = FALSE]
    /\ pc' = "us_clear"
    /\ UNCHANGED <<media, t, ini_tarefa, fim_tarefa, leds, now, alarms,
                   this_state, next_state, val>>
    /\ Observe(<<"step">>)

(* update_states: the store of the assignment next_state <- this_state.   *)
us_store ==
    /\ pc = "us_store"
    /\ flag' = [flag EXCEPT ![next_state] = val]
    /\ pc' = "us_clear"
    /\ UNCHANGED <<media, t, ini_tarefa, fim_tarefa, leds, now, alarms,
                   this_state, next_state, val>>
    /\ Observe(<<"store", next_state, val>>)

(* Mutant: the branch lacks its return, and control falls into the tests   *)
(* that follow it.                                                         *)
us_clear_no_return ==
    /\ pc = "us_clear"
    /\ flag' = [flag EXCEPT ![this_state] = FALSE]
    /\ pc' = CASE this_state = can_read_temp -> "if_alert_neopixel"
               [] this_state = can_alert_neopixel -> "if_thermal_trend"
               [] this_state = can_thermal_trend -> "if_show_oled"
               [] this_state = can_show_oled -> "if_update_neopixel_matrix"
    /\ this_state' = NULL
    /\ next_state' = NULL
    /\ val' = FALSE
    /\ UNCHANGED <<media, t, ini_tarefa, fim_tarefa, leds, now, alarms>>
    /\ Observe(<<"cleared", this_state>>)

(* update_states: this_state <- false; then both functions return.         *)
us_clear ==
    /\ pc = "us_clear"
    /\ flag' = [flag EXCEPT ![this_state] = FALSE]
    /\ pc' = "while"
    /\ this_state' = NULL
    /\ next_state' = NULL
    /\ val' = FALSE
    /\ UNCHANGED <<media, t, ini_tarefa, fim_tarefa, leds, now, alarms>>
    /\ Observe(<<"cleared", this_state>>)

----------------------------------------------------------------------------
Next ==
    \/ Timer1 \/ Timer5 \/ Timer3 \/ Timer2 \/ Timer4
    \/ setup
    \/ control_states
    \/ if_read_temp \/ if_alert_neopixel \/ if_thermal_trend
    \/ if_show_oled \/ if_update_neopixel_matrix
    \/ task_1_begin \/ task_1_read_temperature \/ task_1_reset
    \/ task_5_alert_neopixel
    \/ task_3_begin \/ task_3_thermal_trend
    \/ task_2_begin \/ task_2_show_oled
    \/ reset_4 \/ task_4_begin \/ task_4_update_neopixel_matrix
    \/ show_duration_tasks_execution
    \/ us_load \/ us_store \/ us_clear

Spec == Init /\ [][Next]_vars

(* The main thread runs whenever no interrupt handler does: SpecLive lets  *)
(* it always take its next step eventually, with the steps observer.       *)
MainThread ==
    \/ setup
    \/ control_states
    \/ if_read_temp \/ if_alert_neopixel \/ if_thermal_trend
    \/ if_show_oled \/ if_update_neopixel_matrix
    \/ task_1_begin \/ task_1_read_temperature \/ task_1_reset
    \/ task_5_alert_neopixel
    \/ task_3_begin \/ task_3_thermal_trend
    \/ task_2_begin \/ task_2_show_oled
    \/ reset_4 \/ task_4_begin \/ task_4_update_neopixel_matrix
    \/ show_duration_tasks_execution
    \/ us_load \/ us_store \/ us_clear

InitLive ==
    /\ flag = FlagInit
    /\ media = 0
    /\ t \in Trends
    /\ ini_tarefa = [i \in Tarefas |-> 0]
    /\ fim_tarefa = [i \in Tarefas |-> 0]
    /\ leds = "dark"
    /\ now = 0
    /\ alarms = Timers
    /\ pc = "setup"
    /\ this_state = NULL
    /\ next_state = NULL
    /\ val = FALSE
    /\ obs = "steps"
    /\ called = FALSE
    /\ entry = {}
    /\ ran = <<>>
    /\ irq = FALSE
    /\ reports = 0
    /\ pending = {}
    /\ race = RaceIdle
    /\ solo = SoloOff
    /\ pass = {}
    /\ last = [s \in Bracketed |-> [start |-> 0, end |-> 0]]
    /\ steps = 0
    /\ fresh = FALSE
    /\ quiet = [calls |-> 0, runs |-> 0]
    /\ credit \in CreditInit

SpecLive == InitLive /\ [][Next]_vars /\ WF_vars(MainThread)

(* The first timer is periodic and never cancelled: SpecPeriodic adds that *)
(* can_read_temp does not stay false for ever, which it would only if the  *)
(* timer stopped firing.  The other four timers fire as they please.       *)
SpecPeriodic ==
    InitLive /\ [][Next]_vars /\ WF_vars(MainThread) /\ WF_vars(Timer1)

(* The clock advances.  Spec leaves time out (the scheduling decisions     *)
(* read no timestamp); SpecTimed lets the clock tick between any two steps *)
(* up to MaxTime; its observer is the clock observer.                      *)
MaxTime == 1

Tick ==
    /\ now < MaxTime
    /\ now' = now + 1
    /\ UNCHANGED <<flag, media, t, ini_tarefa, fim_tarefa, leds, alarms,
                   pc, this_state, next_state, val>>
    /\ UNCHANGED hist

InitTimed ==
    /\ flag = FlagInit
    /\ media = 0
    /\ t \in Trends
    /\ ini_tarefa = [i \in Tarefas |-> 0]
    /\ fim_tarefa = [i \in Tarefas |-> 0]
    /\ leds = "dark"
    /\ now = 0
    /\ alarms = Timers
    /\ pc = "setup"
    /\ this_state = NULL
    /\ next_state = NULL
    /\ val = FALSE
    /\ obs = "clock"
    /\ called = FALSE
    /\ entry = {}
    /\ ran = <<>>
    /\ irq = FALSE
    /\ reports = 0
    /\ pending = {}
    /\ race = RaceIdle
    /\ solo = SoloOff
    /\ pass = {}
    /\ last = [s \in Bracketed |-> [start |-> 0, end |-> 0]]
    /\ steps = 0
    /\ fresh = FALSE
    /\ quiet = [calls |-> 0, runs |-> 0]
    /\ credit \in CreditInit

NextTimed == Next \/ Tick

SpecTimed == InitTimed /\ [][NextTimed]_vars

-----------------------------------------------------------------------------
(* The sequential variant (the first program of src/main.c): no flags, no  *)
(* timers; main calls the five tasks in turn, prints the line and sleeps.  *)
(* It shares media, t, the timestamps, the matrix and the clock with the   *)
(* model above; ran lists what the current iteration has done so far.      *)
seqIdle == <<flag, alarms, this_state, next_state, val,
             obs, called, entry, irq, reports, pending, race, solo, pass,
             last, steps, fresh, quiet, credit>>

Done(what) == ran' = Append(ran, what)

(* setup(); then the first iteration.                                      *)
seq_main ==
    /\ pc = "main"
    /\ pc' = "tarefa_1"
    /\ UNCHANGED <<media, t, ini_tarefa, fim_tarefa, leds, now, ran, seqIdle>>

(* tarefa_1(): ini_tarefa1 = get_absolute_time();                          *)
tarefa_1_begin ==
    /\ pc = "tarefa_1"
    /\ ini_tarefa' = [ini_tarefa EXCEPT ![1] = get_absolute_time]
    /\ pc' = "tarefa_1_sample"
    /\ UNCHANGED <<media, t, fim_tarefa, leds, now, ran, seqIdle>>

(* media = tarefa1_obter_media_temp(...); fim_tarefa1 = ...                *)
tarefa_1 ==
    /\ pc = "tarefa_1_sample"
    /\ \E m \in MediaValues : media' = m
    /\ fim_tarefa' = [fim_tarefa EXCEPT ![1] = get_absolute_time]
    /\ pc' = "tarefa_5"
    /\ Done("tarefa_1")
    /\ UNCHANGED <<t, ini_tarefa, leds, now, seqIdle>>

(* tarefa_5(): while (media < 1), the test.                                *)
tarefa_5 ==
    /\ pc = "tarefa_5"
    /\ IF media < AlertThreshold
          THEN pc' = "tarefa_5_on" /\ UNCHANGED ran
          ELSE pc' = "tarefa_2" /\ Done("tarefa_5")
    /\ UNCHANGED <<media, t, ini_tarefa, fim_tarefa, leds, now, seqIdle>>

(* npSetAll(COR_BRANCA); npWrite(); sleep_ms(1000);                        *)
tarefa_5_on ==
    /\ pc = "tarefa_5_on"
    /\ leds' = Drive(<<"npSetAll", "npWrite">>, leds, leds)
    /\ pc' = "tarefa_5_off"
    /\ UNCHANGED <<media, t, ini_tarefa, fim_tarefa, now, ran, seqIdle>>

(* npClear(); npWrite(); sleep_ms(1000); and back to the test.             *)
tarefa_5_off ==
    /\ pc = "tarefa_5_off"
    /\ leds' = Drive(<<"npClear", "npWrite">>, leds, leds)
    /\ pc' = "tarefa_5"
    /\ UNCHANGED <<media, t, ini_tarefa, fim_tarefa, now, ran, seqIdle>>

(* tarefa_2(): ini_tarefa3 = get_absolute_time();                          *)
tarefa_2_begin ==
    /\ pc = "tarefa_2"
    /\ ini_tarefa' = [ini_tarefa EXCEPT ![3] = get_absolute_time]
    /\ pc' = "tarefa_2_classify"
    /\ UNCHANGED <<media, t, fim_tarefa, leds, now, ran, seqIdle>>

(* t = tarefa3_analisa_tendencia(media); fim_tarefa3 = ...                 *)
tarefa_2 ==
    /\ pc = "tarefa_2_classify"
    /\ \E c \in Trends : t' = c
    /\ fim_tarefa' = [fim_tarefa EXCEPT ![3] = get_absolute_time]
    /\ pc' = "tarefa_3"
    /\ Done("tarefa_2")
    /\ UNCHANGED <<media, ini_tarefa, leds, now, seqIdle>>

(* tarefa_3(): ini_tarefa2 = get_absolute_time();                          *)
tarefa_3_begin ==
    /\ pc = "tarefa_3"
    /\ ini_tarefa' = [ini_tarefa EXCEPT ![2] = get_absolute_time]
    /\ pc' = "tarefa_3_render"
    /\ UNCHANGED <<media, t, fim_tarefa, leds, now, ran, seqIdle>>

(* tarefa2_exibir_oled(media, t); fim_tarefa2 = ...                        *)
tarefa_3 ==
    /\ pc = "tarefa_3_render"
    /\ fim_tarefa' = [fim_tarefa EXCEPT ![2] = get_absolute_time]
    /\ pc' = "tarefa_4"
    /\ Done("tarefa_3")
    /\ UNCHANGED <<media, t, ini_tarefa, leds, now, seqIdle>>

(* tarefa_4(): its two timestamps are locals that shadow the globals;      *)
(* tarefa4_matriz_cor_por_tendencia(t).                                    *)
tarefa_4 ==
    /\ pc = "tarefa_4"
    /\ leds' = t
    /\ pc' = "printf"
    /\ Done("tarefa_4")
    /\ UNCHANGED <<media, t, ini_tarefa, fim_tarefa, now, seqIdle>>

(* The four differences and the printf of the line.                        *)
seq_printf ==
    /\ pc = "printf"
    /\ pc' = "sleep_ms"
    /\ Done("printf")
    /\ UNCHANGED <<media, t, ini_tarefa, fim_tarefa, leds, now, seqIdle>>

(* sleep_ms(1000); and the next iteration.                                 *)
seq_sleep_ms ==
    /\ pc = "sleep_ms"
    /\ pc' = "tarefa_1"
    /\ ran' = <<>>
    /\ UNCHANGED <<media, t, ini_tarefa, fim_tarefa, leds, now, seqIdle>>

SeqThread ==
    \/ seq_main
    \/ tarefa_1_begin \/ tarefa_1
    \/ tarefa_5 \/ tarefa_5_on \/ tarefa_5_off
    \/ tarefa_2_begin \/ tarefa_2
    \/ tarefa_3_begin \/ tarefa_3
    \/ tarefa_4
    \/ seq_printf \/ seq_sleep_ms

InitSeq ==
    /\ flag = [s \in Stages |-> FALSE]
    /\ media = 0
    /\ t \in Trends
    /\ ini_tarefa = [i \in Tarefas |-> 0]
    /\ fim_tarefa = [i \in Tarefas |-> 0]
    /\ leds = "dark"
    /\ now = 0
    /\ alarms = {}
    /\ pc = "main"
    /\ this_state = NULL
    /\ next_state = NULL
    /\ val = FALSE
    /\ obs = "seq"
    /\ called = FALSE
    /\ entry = {}
    /\ ran = <<>>
    /\ irq = FALSE
    /\ reports = 0
    /\ pending = {}
    /\ race = RaceIdle
    /\ solo = SoloOff
    /\ pass = {}
    /\ last = [s \in Bracketed |-> [start |-> 0, end |-> 0]]
    /\ steps = 0
    /\ fresh = FALSE
    /\ quiet = [calls |-> 0, runs |-> 0]
    /\ credit \in CreditInit

NextSeq == SeqThread \/ Tick

(* The processor always takes the program's next step eventually.          *)
SpecSeq == InitSeq /\ [][NextSeq]_vars /\ WF_vars(SeqThread)

----------------------------------------------------------------------------
(* Properties.                                                             *)

Range(q) == {q[i] : i \in DOMAIN q}

(* The highest-priority stage of a non-empty set of stages.                *)
Highest(S) ==
    Order[CHOOSE i \in DOMAIN Order :
            Order[i] \in S /\ \A j \in DOMAIN Order : j < i => Order[j] \notin S]

(* The stage after s in the pipeline (s not the terminal stage).           *)
Succ(s) == Order[(CHOOSE i \in DOMAIN Order : Order[i] = s) + 1]

(* control_states has returned; entry, ran, irq, reports describe the      *)
(* invocation that just ended (irq also covers callbacks after the return).*)
Returned == obs = "call" /\ called /\ pc = "while"

(* C1: one call of control_states executes at most one handler; with no    *)
(* callback during the call and some flag set at its start, it executes    *)
(* the handler of the highest-priority set flag, whatever the lower flags. *)
C1_OnePerCallByPriority ==
    obs = "call" =>
        /\ Len(ran) <= 1
        /\ (Returned /\ ~irq /\ entry # {}) => ran = <<Highest(entry)>>

C1_Witness ==
    /\ Returned /\ ~irq
    /\ entry = {can_thermal_trend, can_show_oled, can_update_neopixel_matrix}
    /\ ran = <<can_thermal_trend>>

(* C2: after an invocation that executed a non-terminal stage N with no    *)
(* callback interleaved, N's flag is false and the flag of N+1 is true.    *)
C2_HandOffArmsNext ==
    (Returned /\ ~irq /\ Len(ran) = 1 /\ ran[1] # can_update_neopixel_matrix) =>
        ~flag[ran[1]] /\ flag[Succ(ran[1])]

(* C3: from all flags false, one firing of the ReadTemperature timer and   *)
(* no other firing drives five invocations that execute the five stages in *)
(* pipeline order, with one Reporter line and all flags false at the end.  *)
C3_LoneFiringWalksChain ==
    (obs = "solo" /\ solo.on /\ solo.calls = Len(Order) /\ pc = "while") =>
        /\ solo.seq = Order
        /\ solo.reps = 1
        /\ FlagsSet(flag) = {}

(* C4: an invocation never drops a flag: every flag that was true at its   *)
(* start and whose stage it did not execute is still true after it.        *)
C4_NoFlagDropped ==
    Returned => \A s \in entry : s \notin Range(ran) => flag[s]

(* C5: no wake-up is lost: once the timer of stage S has fired, S's flag   *)
(* stays true until the task of S is started.                              *)
C5_NoLostWakeUp ==
    obs = "wake" => \A s \in pending : flag[s]

(* C6: when the AnalyzeTrend timer fires inside the invocation that        *)
(* executes AlertMatrix, can_thermal_trend is true once that invocation    *)
(* has ended and stays true until AnalyzeTrend runs; AnalyzeTrend has run  *)
(* at least once and at most twice when its flag is false again.           *)
C6_TrendRaceKeepsUpdate ==
    obs = "race" =>
        /\ (race.phase = "open" /\ race.runs = 0) => flag[can_thermal_trend]
        /\ race.phase = "open" => race.runs <= 2
        /\ race.phase = "closed" => race.runs \in {1, 2}

C6_Witness ==
    obs = "race" /\ race.phase = "closed" /\ race.runs = 1

(* C7: after an invocation that executed UpdateMatrix with no callback     *)
(* interleaved, its flag is false, no other flag changed, and the Reporter *)
(* ran exactly once in the invocation, after the handler.                  *)
C7_TerminalStage ==
    obs = "call" =>
        /\ reports <= 1
        /\ reports = 1 => ran = <<can_update_neopixel_matrix>>
        /\ (Returned /\ ran = <<can_update_neopixel_matrix>>) => reports = 1
        /\ (Returned /\ ~irq /\ ran = <<can_update_neopixel_matrix>>) =>
               FlagsSet(flag) = entry \ {can_update_neopixel_matrix}

C7_Witness ==
    /\ Returned /\ ~irq
    /\ ran = <<can_update_neopixel_matrix>>
    /\ reports = 1
    /\ FlagsSet(flag) = {}

(* C8 as stated: every invocation executes exactly one task, never zero.   *)
C8_ExactlyOneAlways ==
    Returned => Len(ran) = 1

(* C8 amended: an invocation executes exactly one task when some flag is   *)
(* set at its start, and none when no flag is set at its start and no      *)
(* callback fires during it.                                               *)
C8_OneIffArmed ==
    Returned =>
        /\ entry # {} => Len(ran) = 1
        /\ (entry = {} /\ ~irq) => Len(ran) = 0

C8_Witness ==
    Returned /\ entry = {} /\ ~irq /\ ran = <<>> /\ media # 0

(* C9: whenever the Reporter is invoked, each of the five stages has       *)
(* executed since the previous Reporter line (or since the start).         *)
C9_ReportEndsFullPass ==
    (obs = "pass" /\ pc = "show_durations") => pass = Stages

(* The stage each period of section 4.1 belongs to.                        *)
PeriodStage(ms) ==
    CASE ms = 1000 -> can_read_temp
      [] ms = 1200 -> can_alert_neopixel
      [] ms = 1250 -> can_thermal_trend
      [] ms = 1300 -> can_show_oled
      [] ms = 1350 -> can_update_neopixel_matrix

(* C10: each timer callback only sets the flag of its own stage to true,   *)
(* leaves every other flag and all data unchanged, and returns true, so no *)
(* timer is ever cancelled.                                                *)
C10_CallbackSetsOwnFlag ==
    [][ /\ alarms' = Timers
        /\ \A tm \in Timers :
             LET r == Callback(tm.callback, flag) IN
               /\ r.ret
               /\ r.flags = [flag EXCEPT ![PeriodStage(tm.delay_ms)] = TRUE]
        /\ pc' = pc =>
             /\ \E s \in Stages : flag' = [flag EXCEPT ![s] = TRUE]
             /\ UNCHANGED <<media, t, ini_tarefa, fim_tarefa, leds, now,
                            this_state, next_state, val>> ]_vars

C10_Witness ==
    pc = "setup" /\ FlagsSet(flag) = Stages /\ alarms = Timers

(* C11: in every reachable state at most one of the five flags is true.    *)
C11_AtMostOneFlag ==
    Cardinality(FlagsSet(flag)) <= 1

(* The stages whose handlers do not write their own flag and hand off.     *)
Middle == {can_alert_neopixel, can_thermal_trend, can_show_oled}

(* C14: update_states copies this_state's value on entry into next_state   *)
(* and then resets this_state; so after an invocation that executed a      *)
(* middle stage N with no callback interleaved, N's flag is false, its     *)
(* successor's flag is true and the three other flags are as at entry.     *)
C14_UpdateStatesHandOff ==
    (obs = "call" /\ called /\ ~irq) =>
        /\ pc = "us_store" => val = flag[this_state]
        /\ pc = "us_clear" => flag[next_state] = val
        /\ (pc = "while" /\ Len(ran) = 1 /\ ran[1] \in Middle) =>
               FlagsSet(flag) = (entry \ {ran[1]}) \cup {Succ(ran[1])}

C14_Witness ==
    /\ Returned /\ ~irq
    /\ ran = <<can_alert_neopixel>>
    /\ entry = {can_alert_neopixel, can_show_oled}
    /\ FlagsSet(flag) = {can_thermal_trend, can_show_oled}

(* Number of npWrite calls in a sequence of driver calls.                  *)
Commits(calls) == Cardinality({i \in DOMAIN calls : calls[i] = "npWrite"})

(* C12: one execution of the AlertMatrix handler fills the matrix with the *)
(* alert colour if media < 1.0 and clears it if media >= 1.0 (media is in  *)
(* tenths: 8 fills, 10 clears), commits exactly once, is a single pass     *)
(* into update_states, and leaves media, t and every flag unchanged.       *)
C12_AlertByThreshold ==
    [][ (pc = "task_5" /\ pc' # pc) =>
          /\ AlertCalls(media) =
                IF media < 10 THEN <<"npSetAll", "npWrite">> ELSE <<"npClear", "npWrite">>
          /\ Commits(AlertCalls(media)) = 1
          /\ leds' = IF media < 10 THEN "white" ELSE "clear"
          /\ pc' = "us_load"
          /\ UNCHANGED <<flag, media, t>> ]_vars

C12_Witness ==
    /\ pc = "us_load" /\ this_state = can_alert_neopixel
    /\ media = 10 /\ leds = "clear"

(* Duration of the latest execution of stage s, as the observer saw it.    *)
Dur(s) == last[s].end - last[s].start

(* C13: the Reporter reports, in order, the current media, the durations   *)
(* of the latest executions of ReadTemperature, ShowDisplay, AnalyzeTrend  *)
(* and UpdateMatrix, and the current t; it changes no flag, media, t or    *)
(* timestamp.                                                              *)
C13_ReportOrder ==
    [][ (pc = "show_durations" /\ pc' # pc) =>
          /\ obs = "clock" =>
               ReportLine = <<media,
                              Dur(can_read_temp),
                              Dur(can_show_oled),
                              Dur(can_thermal_trend),
                              Dur(can_update_neopixel_matrix),
                              t>>
          /\ UNCHANGED <<flag, media, t, ini_tarefa, fim_tarefa>> ]_vars

C13_Witness ==
    /\ obs = "clock" /\ pc = "show_durations"
    /\ Dur(can_thermal_trend) = 1
    /\ Dur(can_show_oled) = 0
    /\ last[can_show_oled].start = 1

(* C15: media is written only by the sampling step of ReadTemperature, of  *)
(* which each execution has one; t is written only by the classifying      *)
(* step of AnalyzeTrend, with media as it stands at that step; every other *)
(* step leaves both unchanged.                                             *)
C15_DataOwnership ==
    [][ /\ media' # media => pc = "task_1_sample"
        /\ t' # t => pc = "task_3_classify"
        /\ (pc = "task_1" /\ pc' # pc) => pc' = "task_1_sample"
        /\ (pc = "task_1_sample" /\ pc' # pc) =>
               media' \in MediaValues /\ t' = t /\ pc' = "task_1_reset"
        /\ (pc = "task_3_classify" /\ pc' # pc) =>
               media' = media /\ t' \in Trends /\ pc' = "us_load" ]_vars

C15_Witness ==
    /\ pc = "us_load" /\ this_state = can_thermal_trend
    /\ media = 8 /\ t = "rising" /\ leds = "stable"

(* The timestamp pair each handler writes, and the steps at which it       *)
(* reads the clock.                                                        *)
PairOf(s) ==
    CASE s = can_read_temp -> 1
      [] s = can_show_oled -> 2
      [] s = can_thermal_trend -> 3
      [] s = can_update_neopixel_matrix -> 4

FirstPc(s) ==
    CASE s = can_read_temp -> "task_1"
      [] s = can_show_oled -> "task_2"
      [] s = can_thermal_trend -> "task_3"
      [] s = can_update_neopixel_matrix -> "task_4"

LastPc(s) ==
    CASE s = can_read_temp -> "task_1_sample"
      [] s = can_show_oled -> "task_2_render"
      [] s = can_thermal_trend -> "task_3_classify"
      [] s = can_update_neopixel_matrix -> "task_4_palette"

StampPcs == {FirstPc(s) : s \in Bracketed} \cup {LastPc(s) : s \in Bracketed}

Decision(here) ==
    CASE here = "if_read_temp" -> <<can_read_temp, "task_1", "if_alert_neopixel">>
      [] here = "if_alert_neopixel" -> <<can_alert_neopixel, "task_5", "if_thermal_trend">>
      [] here = "if_thermal_trend" -> <<can_thermal_trend, "task_3", "if_show_oled">>
      [] here = "if_show_oled" -> <<can_show_oled, "task_2", "if_update_neopixel_matrix">>
      [] here = "if_update_neopixel_matrix" ->
             <<can_update_neopixel_matrix, "reset_4", "while">>

Decisions == {"if_read_temp", "if_alert_neopixel", "if_thermal_trend",
              "if_show_oled", "if_update_neopixel_matrix"}

(* What the four bracketed handlers do with the timestamps, and what the   *)
(* scheduler's decisions read.                                             *)
StampsOfBracketed ==
    /\ \A s \in Bracketed :
         /\ (pc = FirstPc(s) /\ pc' # pc) =>
                /\ ini_tarefa' = [ini_tarefa EXCEPT ![PairOf(s)] = now]
                /\ fim_tarefa' = fim_tarefa
                /\ pc' = LastPc(s)
         /\ (pc = LastPc(s) /\ pc' # pc) =>
                /\ fim_tarefa' = [fim_tarefa EXCEPT ![PairOf(s)] = now]
                /\ ini_tarefa' = ini_tarefa
                /\ now >= ini_tarefa[PairOf(s)]
    /\ \A here \in Decisions :
         (pc = here /\ pc' # pc) =>
             pc' = IF flag[Decision(here)[1]] THEN Decision(here)[2]
                                             ELSE Decision(here)[3]

C17_CallsReturn ==
    /\ [](obs = "steps" => steps <= 9)
    /\ []<>(pc = "while")
    /\ []<>(pc = "if_read_temp")

C17_Witness ==
    /\ obs = "steps" /\ pc = "while" /\ steps = 9
    /\ leds \in Trends /\ FlagsSet(flag) # {}

(* C18: whenever ShowDisplay, UpdateMatrix or the Reporter executes, t was  *)
(* computed from the current media: AnalyzeTrend has run and               *)
(* ReadTemperature has not run since.                                      *)
C18_TrendIsOfCurrentMedia ==
    (obs = "fresh" /\ pc \in {"task_2_render", "task_4_palette", "show_durations"})
        => fresh

(* Five calls of control_states have returned since the latest timer       *)
(* firing.                                                                 *)
Quiesced ==
    /\ obs = "quiet"
    /\ quiet.calls >= 5
    /\ quiet.calls = 5 => pc = "while"

(* C19: once five calls of control_states have been made and have          *)
(* returned with no timer firing since before the first of them, all five  *)
(* flags are false, and for as long as no timer fires every further call   *)
(* runs no handler and no Reporter and changes no flag, media, t or        *)
(* timestamp.                                                              *)
C19_Quiescence ==
    /\ [](Quiesced =>
            /\ FlagsSet(flag) = {}
            /\ pc \in Decisions \cup {"while"})
    /\ [][ (Quiesced /\ quiet'.calls # 0) =>
               UNCHANGED <<flag, media, t, ini_tarefa, fim_tarefa>> ]_vars

C19_Witness ==
    /\ Quiesced /\ quiet.calls = 6 /\ quiet.runs = 4
    /\ pc = "while"

(* C20: no stage has been executed more often than it has been armed, the  *)
(* arming events being the firings of its timer, the hand-offs that stored *)
(* true into its flag and, for ReadTemperature, the initial true.          *)
C20_NoSpuriousRun == obs = "arm" => credit.n >= 0

C20_Witness ==
    /\ obs = "arm" /\ credit.stage = can_thermal_trend /\ credit.n = 0
    /\ pc = "us_clear" /\ this_state = can_thermal_trend
    /\ flag[can_show_oled]

(* C21: with the ReadTemperature timer firing for ever and the main loop   *)
(* running, ReadTemperature is executed again and again, whatever the      *)
(* other four timers do; and a call of control_states that finds           *)
(* can_read_temp true executes ReadTemperature: the flag is still true     *)
(* when the first test reads it, and that test enters the handler.         *)
C21_ReadTemperatureNotStarved ==
    /\ []<>(pc = "task_1_sample")
    /\ [][ /\ (pc = "while" /\ pc' # pc /\ flag[can_read_temp]) =>
                (pc' = "if_read_temp" /\ flag'[can_read_temp])
           /\ (pc = "if_read_temp" /\ flag[can_read_temp]) =>
                (flag'[can_read_temp] /\ pc' \in {"if_read_temp", "task_1"})
           /\ (pc = "task_1" /\ pc' # pc) => pc' = "task_1_sample" ]_vars

C21_Witness ==
    /\ pc = "task_1_sample" /\ media \in MediaValues
    /\ FlagsSet(flag) = Stages

(* media holds its start-up value, which no sample equals, until the       *)
(* first execution of ReadTemperature writes it.                           *)
Unwritten == media \notin MediaValues

(* C22: only can_read_temp starts true; until ReadTemperature has written  *)
(* media the main thread is nowhere but on its way into ReadTemperature,   *)
(* with can_read_temp still true whatever timers have fired, so the first  *)
(* handler executed is ReadTemperature, without any timer, and no other    *)
(* handler runs on a media that was never written.                         *)
C22_ReadTemperatureFirst ==
    /\ FlagsSet(FlagInit) = {can_read_temp}
    /\ Unwritten =>
         /\ pc \in {"setup", "while", "if_read_temp", "task_1", "task_1_sample"}
         /\ pc \in {"setup", "while", "if_read_temp"} => flag[can_read_temp]
         /\ leds = "dark"

C22_Witness ==
    /\ Unwritten /\ pc = "task_1_sample"
    /\ FlagsSet(flag) = Stages

(* C23: in the sequential variant every iteration, for every value the     *)
(* sampling returns, runs read temperature, alert, analyze trend, show     *)
(* display and update matrix in that order, prints one line and goes on to *)
(* the next iteration; the alert task returns for every value of media.    *)
C23_IterationCompletes ==
    /\ [](pc = "sleep_ms" =>
             ran = <<"tarefa_1", "tarefa_5", "tarefa_2", "tarefa_3",
                     "tarefa_4", "printf">>)
    /\ [](pc = "tarefa_5" => <>(pc = "tarefa_2"))
    /\ [](pc = "tarefa_1" => <>(pc = "sleep_ms"))

====
